---- MODULE Spec2Model ----
(***************************************************************************)
(* Model of danawa_fridge_crawl.py: the spec-text parser                   *)
(* (extract_capacities), the item extractor (parse_current_page), the     *)
(* two-tier pagination advancer (go_to_next_page) and the crawl loop with  *)
(* its result sink (main).                                                 *)
(*                                                                         *)
(* Texts are sequences of one-character strings.  The Korean syllables of  *)
(* the three labels are written with their romanisation, one string per   *)
(* syllable: chong-yong-ryang (total capacity), naeng-jang (fridge),       *)
(* naeng-dong (freezer); "sil" is the syllable that turns naeng-dong into  *)
(* "freezer compartment".                                                  *)
(***************************************************************************)
EXTENDS Integers, Sequences, FiniteSets, TLC

\* ------------------------------------------------------------------------
\* Program constants
\* ------------------------------------------------------------------------
MAX_PAGES == 200

Header == <<"name", "total(L)", "freezer(L)", "fridge(L)">>

\* ------------------------------------------------------------------------
\* Bounds of the modelled site and of the parser's inputs
\* ------------------------------------------------------------------------
\* product cards on one rendered page
MaxItems == 2
\* pages of the listing that carry product cards; later pages are empty
MaxListingPages == 2
\* product cards of the whole listing
MaxProducts == 3
\* fragments of one generated spec text
MaxFields == 4

\* ------------------------------------------------------------------------
\* Optional integers and the ValueError of int()
\* ------------------------------------------------------------------------
None == [tag |-> "None", val |-> 0]
IntVal(n) == [tag |-> "int", val |-> n]
ValueError == [tag |-> "ValueError", val |-> 0]

\* ------------------------------------------------------------------------
\* Characters
\* ------------------------------------------------------------------------
DigitChars == <<"0", "1", "2", "3", "4", "5", "6", "7", "8", "9">>

IsDigit(c) == \E i \in 1..10 : DigitChars[i] = c

DigitVal(c) == (CHOOSE i \in 1..10 : DigitChars[i] = c) - 1

\* the class \s
IsSpace(c) == c \in {" ", "\t", "\n"}

\* the class [\d,]
IsNumChar(c) == IsDigit(c) \/ c = ","

TotalLabel == <<"chong", "yong", "ryang">>
FridgeLabel == <<"naeng", "jang">>
FreezerLabel == <<"naeng", "dong">>

\* ------------------------------------------------------------------------
\* extract_capacities
\* ------------------------------------------------------------------------
RECURSIVE SkipSpaces(_, _)
\* \s* from position i: the first position at or after i that is not a space
SkipSpaces(text, i) ==
    IF i <= Len(text) /\ IsSpace(text[i]) THEN SkipSpaces(text, i + 1) ELSE i

RECURSIVE SkipNumChars(_, _)
\* [\d,]* from position i
SkipNumChars(text, i) ==
    IF i <= Len(text) /\ IsNumChar(text[i]) THEN SkipNumChars(text, i + 1) ELSE i

\* label \s* :? \s* ([\d,]+) \s* L  anchored at position i.  The classes that
\* follow one another are disjoint, so the greedy match is the only match.
\* The result is <<d, e>>, group 1 being text[d..e-1], or <<>> without match.
MatchAt(label, text, i) ==
    LET a == i + Len(label)
        b == SkipSpaces(text, a)
        c == IF b <= Len(text) /\ text[b] = ":" THEN b + 1 ELSE b
        d == SkipSpaces(text, c)
        e == SkipNumChars(text, d)
        f == SkipSpaces(text, e)
    IN  IF /\ a - 1 <= Len(text)
           /\ SubSeq(text, i, a - 1) = label
           /\ e > d
           /\ f <= Len(text)
           /\ text[f] = "L"
        THEN <<d, e>>
        ELSE <<>>

\* re.search: group 1 of the leftmost match, or <<>> when there is none
re_search(label, text) ==
    LET starts == {i \in 1..Len(text) : MatchAt(label, text, i) # <<>>}
    IN  IF starts = {}
        THEN <<>>
        ELSE LET i == CHOOSE s \in starts : \A t \in starts : s <= t
                 m == MatchAt(label, text, i)
             IN  <<SubSeq(text, m[1], m[2] - 1)>>

RECURSIVE StripCommas(_)
\* str.replace(",", "")
StripCommas(s) ==
    IF s = <<>> THEN <<>>
    ELSE IF Head(s) = "," THEN StripCommas(Tail(s))
    ELSE <<Head(s)>> \o StripCommas(Tail(s))

RECURSIVE DecimalValue(_)
DecimalValue(s) ==
    IF s = <<>> THEN 0
    ELSE 10 * DecimalValue(SubSeq(s, 1, Len(s) - 1)) + DigitVal(s[Len(s)])

\* int(): the empty string is not a number
int(s) == IF s = <<>> THEN ValueError ELSE IntVal(DecimalValue(s))

find_l(label, text) ==
    LET m == re_search(label, text)
    IN  IF m = <<>> THEN None ELSE int(StripCommas(m[1]))

\* The three searches run in order; the first ValueError leaves the function.
extract_capacities(text) ==
    LET total_l == find_l(TotalLabel, text)
        fridge_l == find_l(FridgeLabel, text)
        freezer_l == find_l(FreezerLabel, text)
    IN  IF ValueError \in {total_l, fridge_l, freezer_l}
        THEN [raised |-> TRUE, total_l |-> None, fridge_l |-> None,
              freezer_l |-> None]
        ELSE [raised |-> FALSE, total_l |-> total_l, fridge_l |-> fridge_l,
              freezer_l |-> freezer_l]

\* ------------------------------------------------------------------------
\* The site: product cards and the "next page" control
\* ------------------------------------------------------------------------
TextAll ==
    <<"chong", "yong", "ryang", ":", " ", "8", "7", "0", "L", "/",
      "naeng", "jang", ":", " ", "5", "0", "3", "L", "/",
      "naeng", "dong", ":", " ", "3", "6", "7", "L", "/">>

TextAlt ==
    <<"naeng", "dong", " ", "1", ",", "3", "6", "7", " ", "L", "/",
      "naeng", "jang", ":", "2", ",", "5", "0", "3", "L", "/",
      "chong", "yong", "ryang", ":", " ", "3", ",", "8", "7", "0", "L">>

TextNoFreezer ==
    <<"chong", "yong", "ryang", ":", " ", "8", "7", "0", "L", "/",
      "naeng", "jang", ":", " ", "5", "0", "3", "L", "/",
      "naeng", "dong", "sil">>

TextCommaOnly ==
    <<"chong", "yong", "ryang", ":", " ", ",", "L", "/",
      "naeng", "jang", ":", " ", "5", "0", "3", "L", "/",
      "naeng", "dong", ":", " ", "3", "6", "7", "L">>

\* what select_one returns: an element with its text, or nothing
NoElement == [present |-> FALSE, text |-> <<>>]
Element(t) == [present |-> TRUE, text |-> t]

\* p.prod_name > a, with the text get_text gives
NoName == [present |-> FALSE, text |-> ""]
Name(t) == [present |-> TRUE, text |-> t]

Card(n, primary, fallback) ==
    [name_el |-> n, spec_list |-> primary, prod_spec_set |-> fallback]

\* li.prod_item.prod_layer candidates the site may render
Cards ==
    { Card(Name("ABC Fridge"), Element(TextAll), NoElement),
      Card(Name("B"), NoElement, Element(TextAlt)),
      Card(NoName, Element(TextAll), NoElement),
      Card(Name("C"), NoElement, NoElement),
      Card(Name("D"), Element(TextNoFreezer), NoElement),
      Card(Name("E"), Element(TextNoFreezer), Element(TextAll)),
      Card(Name("F"), Element(TextCommaOnly), NoElement) }

SeqsUpTo(S, n) == UNION {[1..k -> S] : k \in 0..n}

\* the candidates of the page the browser displays
PageContents(page) ==
    IF page <= MaxListingPages THEN SeqsUpTo(Cards, MaxItems) ELSE {<<>>}

edge_nav == <<"e", "d", "g", "e", "_", "n", "a", "v">>
nav_next == <<"n", "a", "v", "_", "n", "e", "x", "t">>
disabled == <<"d", "i", "s", "a", "b", "l", "e", "d">>
off == <<"o", "f", "f">>

\* class tokens of the elements a.edge_nav.nav_next can locate
NextControls ==
    { <<edge_nav, nav_next>>,
      <<edge_nav, nav_next, disabled>>,
      <<edge_nav, nav_next, off>>,
      <<off, edge_nav, nav_next>> }

RECURSIVE JoinSpace(_)
\* the class attribute of an element with these class tokens
JoinSpace(tokens) ==
    IF tokens = <<>> THEN <<>>
    ELSE IF Len(tokens) = 1 THEN tokens[1]
    ELSE tokens[1] \o <<" ">> \o JoinSpace(Tail(tokens))

\* Python's "sub in s" on strings
Contains(s, sub) ==
    \E i \in 1..(Len(s) - Len(sub) + 1) : SubSeq(s, i, i + Len(sub) - 1) = sub

\* ------------------------------------------------------------------------
\* State
\* ------------------------------------------------------------------------
VARIABLES
    pc,            \* position of the run in main and in the functions it calls
    error,         \* the exception that ended the run, "none" while there is none
    driver,        \* browser session: "none", "open", "quit"
    displayed,     \* number of the listing page the browser displays
    shown,         \* site: product cards rendered so far
    current_page,  \* main: current_page
    all_rows,      \* main: all_rows
    items,         \* parse_current_page: items
    idx,           \* parse_current_page: position of the for loop in items
    results,       \* parse_current_page: results
    tier1,         \* go_to_next_page: outcome of the numeric-link wait
    tier2,         \* go_to_next_page: outcome of the next-button wait
    next_btn,      \* go_to_next_page: class tokens of the located control
    class_attr,    \* go_to_next_page: class_attr
    clicks,        \* go_to_next_page: the clicks issued during the call
    ret,           \* go_to_next_page: returned value, "none" before the return
    file,          \* contents of OUTPUT_CSV
    writes,        \* number of times OUTPUT_CSV was written
    extractions,   \* history: calls of parse_current_page
    advances,      \* history: calls of go_to_next_page
    failedAt,      \* history: current_page when go_to_next_page returned False
    emitted,       \* history: rows returned by parse_current_page, in order
    src_idx,       \* history: position in items of each row of results
    spec_text,     \* parser run: the spec text
    fields,        \* parser run: the labelled fields the text was built from
    caps           \* parser run: result of extract_capacities

vars ==
    <<pc, error, driver, displayed, shown, current_page, all_rows, items, idx,
      results, tier1, tier2, next_btn, class_attr, clicks, ret, file, writes,
      extractions, advances, failedAt, emitted, src_idx, spec_text,
      fields, caps>>

mainVars == <<driver, displayed, current_page, all_rows, file, writes>>
parseVars == <<items, idx, results, src_idx>>
navVars == <<tier1, tier2, next_btn, class_attr, clicks, ret>>
histVars == <<extractions, advances, failedAt, emitted>>
parserVars == <<spec_text, fields, caps>>

NotWritten == [header |-> <<>>, rows |-> <<>>]
NotCalled == [tag |-> "pending", val |-> 0]
Pending == [raised |-> FALSE, total_l |-> NotCalled, fridge_l |-> NotCalled,
            freezer_l |-> NotCalled]

\* ------------------------------------------------------------------------
\* parse_current_page
\* ------------------------------------------------------------------------
\* div.spec_list, and div.prod_spec_set only when there is no div.spec_list
SelectSpec(item) ==
    IF item.spec_list.present THEN item.spec_list ELSE item.prod_spec_set

\* the test with the freezer capacity forgotten
Incomplete_two_fields(total_l, fridge_l, freezer_l) ==
    total_l = None \/ fridge_l = None

\* the test that skips a candidate without all three capacities
Incomplete(total_l, fridge_l, freezer_l) ==
    total_l = None \/ fridge_l = None \/ freezer_l = None

\* the appended tuple: name, total, freezer, fridge
MakeRow(name, total_l, fridge_l, freezer_l) ==
    <<name, total_l, freezer_l, fridge_l>>

\* html = driver.page_source; items = soup.select(...); results = []
\* The site renders cards while its listing has products left.
ParseBegin ==
    /\ pc = "page_source"
    /\ \E content \in PageContents(displayed) :
          /\ shown + Len(content) <= MaxProducts
          /\ items' = content
          /\ shown' = shown + Len(content)
    /\ idx' = 1
    /\ results' = <<>>
    /\ src_idx' = <<>>
    /\ extractions' = extractions + 1
    /\ pc' = "for_item"
    /\ UNCHANGED <<error, mainVars, navVars, advances, failedAt, emitted,
                   parserVars>>

\* one iteration of the for loop
ParseItem ==
    /\ pc = "for_item"
    /\ idx <= Len(items)
    /\ LET item == items[idx]
           spec_el == SelectSpec(item)
           c == extract_capacities(spec_el.text)
       IN  IF ~item.name_el.present \/ ~spec_el.present
           THEN /\ idx' = idx + 1
                /\ UNCHANGED <<pc, error, results, src_idx>>
           ELSE IF c.raised
           THEN /\ pc' = "crashed"
                /\ error' = "ValueError"
                /\ UNCHANGED <<idx, results, src_idx>>
           ELSE IF Incomplete(c.total_l, c.fridge_l, c.freezer_l)
           THEN /\ idx' = idx + 1
                /\ UNCHANGED <<pc, error, results, src_idx>>
           ELSE /\ results' = Append(results,
                        MakeRow(item.name_el.text, c.total_l, c.fridge_l,
                                c.freezer_l))
                /\ src_idx' = Append(src_idx, idx)
                /\ idx' = idx + 1
                /\ UNCHANGED <<pc, error>>
    /\ UNCHANGED shown
    /\ UNCHANGED <<items, mainVars, navVars, histVars, parserVars>>

\* the page's rows put in front of the accumulated ones
Extend_prepend(rows, page_rows) == page_rows \o rows

\* all_rows.extend(page_rows)
Extend(rows, page_rows) == rows \o page_rows

\* return results; main extends all_rows and calls go_to_next_page
ParseReturn ==
    /\ pc = "for_item"
    /\ idx > Len(items)
    /\ all_rows' = Extend(all_rows, results)
    /\ emitted' = emitted \o results
    /\ advances' = advances + 1
    /\ tier1' = "none"
    /\ tier2' = "none"
    /\ next_btn' = <<>>
    /\ class_attr' = <<>>
    /\ clicks' = <<>>
    /\ ret' = "none"
    /\ pc' = "tier1"
    /\ UNCHANGED shown
    /\ UNCHANGED <<error, driver, displayed, current_page, file, writes,
                   parseVars, extractions, failedAt, parserVars>>

\* ------------------------------------------------------------------------
\* go_to_next_page
\* ------------------------------------------------------------------------
\* the page after the next
next_num_skip(page) == page + 2

next_num(page) == page + 1

\* the test with the "off" marker forgotten
IsInactive_disabled_only(cls) == Contains(cls, disabled)

\* "disabled" in class_attr or "off" in class_attr
IsInactive(cls) == Contains(cls, disabled) \/ Contains(cls, off)

\* WebDriverWait(driver, 3).until(clickable(numeric link next_str))
Tier1Wait ==
    /\ pc = "tier1"
    /\ \/ /\ tier1' = "found"
          /\ pc' = "t1_click"
       \/ /\ tier1' = "timeout"
          /\ pc' = "tier2"
    /\ UNCHANGED shown
    /\ UNCHANGED <<error, mainVars, parseVars, tier2, next_btn, class_attr,
                   clicks, ret, histVars, parserVars>>

\* the numeric link clicked without the return: the call goes on to tier 2
Tier1Click_fall_through ==
    /\ pc = "t1_click"
    /\ clicks' = Append(clicks, "num_link")
    /\ displayed' = current_page + 1
    /\ pc' = "tier2"
    /\ UNCHANGED shown
    /\ UNCHANGED <<error, driver, current_page, all_rows, file, writes,
                   parseVars, tier1, tier2, next_btn, class_attr, ret,
                   histVars, parserVars>>

\* scrollIntoView, click of the numeric link, return True.  The link labelled
\* next_str shows the page of that number.
Tier1Click ==
    /\ pc = "t1_click"
    /\ clicks' = Append(clicks, "num_link")
    /\ displayed' = next_num(current_page)
    /\ ret' = "True"
    /\ pc' = "returned"
    /\ UNCHANGED shown
    /\ UNCHANGED <<error, driver, current_page, all_rows, file, writes,
                   parseVars, tier1, tier2, next_btn, class_attr, histVars,
                   parserVars>>

\* the second timeout answered with True
Tier2Wait_timeout_true ==
    /\ pc = "tier2"
    /\ \/ /\ tier2' = "found"
          /\ \E control \in NextControls : next_btn' = control
          /\ pc' = "t2_inspect"
          /\ UNCHANGED ret
       \/ /\ tier2' = "timeout"
          /\ ret' = "True"
          /\ pc' = "returned"
          /\ UNCHANGED next_btn
    /\ UNCHANGED shown
    /\ UNCHANGED <<error, mainVars, parseVars, tier1, class_attr, clicks,
                   histVars, parserVars>>

\* WebDriverWait(driver, 3).until(clickable(a.edge_nav.nav_next))
Tier2Wait ==
    /\ pc = "tier2"
    /\ \/ /\ tier2' = "found"
          /\ \E control \in NextControls : next_btn' = control
          /\ pc' = "t2_inspect"
          /\ UNCHANGED ret
       \/ /\ tier2' = "timeout"
          /\ ret' = "False"
          /\ pc' = "returned"
          /\ UNCHANGED next_btn
    /\ UNCHANGED shown
    /\ UNCHANGED <<error, mainVars, parseVars, tier1, class_attr, clicks,
                   histVars, parserVars>>

\* class_attr = next_btn.get_attribute("class"), and the test on it
Tier2Inspect ==
    /\ pc = "t2_inspect"
    /\ class_attr' = JoinSpace(next_btn)
    /\ IF IsInactive(class_attr')
       THEN /\ ret' = "False"
            /\ pc' = "returned"
       ELSE /\ pc' = "t2_click"
            /\ UNCHANGED ret
    /\ UNCHANGED shown
    /\ UNCHANGED <<error, mainVars, parseVars, tier1, tier2, next_btn, clicks,
                   histVars, parserVars>>

\* scrollIntoView, click of the next-page control, return True.  The locator
\* does not name a page: the site's "next page" control is taken to show the
\* page after the displayed one.
Tier2Click ==
    /\ pc = "t2_click"
    /\ clicks' = Append(clicks, "next_btn")
    /\ displayed' = displayed + 1
    /\ ret' = "True"
    /\ pc' = "returned"
    /\ UNCHANGED shown
    /\ UNCHANGED <<error, driver, current_page, all_rows, file, writes,
                   parseVars, tier1, tier2, next_btn, class_attr, histVars,
                   parserVars>>

\* ------------------------------------------------------------------------
\* main
\* ------------------------------------------------------------------------
\* the cap off by one
LoopCond_off_by_one(page) == page <= MAX_PAGES + 1

\* the condition of the while loop
LoopCond(page) == page <= MAX_PAGES

\* the header and the rows that main writes
CsvContents(rows) == [header |-> Header, rows |-> rows]

\* driver = webdriver.Chrome(...); driver.get(START_URL); all_rows = [];
\* current_page = 1
Acquire ==
    /\ pc = "start"
    /\ driver' = "open"
    /\ displayed' = 1
    /\ all_rows' = <<>>
    /\ current_page' = 1
    /\ pc' = "while"
    /\ UNCHANGED shown
    /\ UNCHANGED <<error, file, writes, parseVars, navVars, histVars,
                   parserVars>>

\* while current_page <= MAX_PAGES
LoopTest ==
    /\ pc = "while"
    /\ pc' = IF LoopCond(current_page) THEN "page_source" ELSE "quit"
    /\ UNCHANGED shown
    /\ UNCHANGED <<error, mainVars, parseVars, navVars, histVars, parserVars>>

\* the loop without the break
AdvanceReturn_no_break ==
    /\ pc = "returned"
    /\ IF ret = "False"
       THEN /\ pc' = "while"
            /\ failedAt' = current_page
            /\ UNCHANGED current_page
       ELSE /\ current_page' = current_page + 1
            /\ pc' = "while"
            /\ UNCHANGED failedAt
    /\ UNCHANGED shown
    /\ UNCHANGED <<error, driver, displayed, all_rows, file, writes, parseVars,
                   navVars, extractions, advances, emitted, parserVars>>

\* if not go_to_next_page(...): break; current_page += 1
AdvanceReturn ==
    /\ pc = "returned"
    /\ IF ret = "False"
       THEN /\ pc' = "quit"
            /\ failedAt' = current_page
            /\ UNCHANGED current_page
       ELSE /\ current_page' = current_page + 1
            /\ pc' = "while"
            /\ UNCHANGED failedAt
    /\ UNCHANGED shown
    /\ UNCHANGED <<error, driver, displayed, all_rows, file, writes, parseVars,
                   navVars, extractions, advances, emitted, parserVars>>

\* driver.quit()
Quit ==
    /\ pc = "quit"
    /\ driver' = "quit"
    /\ pc' = "write"
    /\ UNCHANGED shown
    /\ UNCHANGED <<error, displayed, current_page, all_rows, file, writes,
                   parseVars, navVars, histVars, parserVars>>

\* with open(OUTPUT_CSV, "w", ...): writerow(header); writerows(all_rows)
WriteCsv ==
    /\ pc = "write"
    /\ file' = CsvContents(all_rows)
    /\ writes' = writes + 1
    /\ pc' = "done"
    /\ UNCHANGED shown
    /\ UNCHANGED <<error, driver, displayed, current_page, all_rows, parseVars,
                   navVars, histVars, parserVars>>

\* the places of the run where the next statement is a call on the driver
DriverCalls ==
    {"page_source", "tier1", "t1_click", "tier2", "t2_inspect", "t2_click"}

\* a call on the driver raises an exception that is not TimeoutException;
\* no statement of the program catches it
DriverError ==
    /\ pc \in DriverCalls
    /\ pc' = "crashed"
    /\ error' = "WebDriverException"
    /\ UNCHANGED shown
    /\ UNCHANGED <<mainVars, parseVars, navVars, histVars, parserVars>>

Init ==
    /\ pc = "start"
    /\ error = "none"
    /\ driver = "none"
    /\ displayed = 0
    /\ shown = 0
    /\ current_page = 1
    /\ all_rows = <<>>
    /\ items = <<>>
    /\ idx = 1
    /\ results = <<>>
    /\ tier1 = "none"
    /\ tier2 = "none"
    /\ next_btn = <<>>
    /\ class_attr = <<>>
    /\ clicks = <<>>
    /\ ret = "none"
    /\ file = NotWritten
    /\ writes = 0
    /\ extractions = 0
    /\ advances = 0
    /\ failedAt = 0
    /\ emitted = <<>>
    /\ src_idx = <<>>
    /\ spec_text = <<>>
    /\ fields = <<>>
    /\ caps = Pending

Next ==
    \/ Acquire
    \/ LoopTest
    \/ ParseBegin
    \/ ParseItem
    \/ ParseReturn
    \/ Tier1Wait
    \/ Tier1Click
    \/ Tier2Wait
    \/ Tier2Inspect
    \/ Tier2Click
    \/ AdvanceReturn
    \/ Quit
    \/ WriteCsv

\* the run when every call on the driver returns or times out
Spec == Init /\ [][Next]_vars

NextErr == Next \/ DriverError

\* the run when calls on the driver may also raise other exceptions
SpecErr == Init /\ [][NextErr]_vars

\* ------------------------------------------------------------------------
\* Runs of extract_capacities alone, on generated spec texts
\* ------------------------------------------------------------------------
Labels == {"total", "fridge", "freezer"}

LabelText(label) ==
    CASE label = "total" -> TotalLabel
      [] label = "fridge" -> FridgeLabel
      [] label = "freezer" -> FreezerLabel

\* the digits written after each label
PlainDigits(label) ==
    CASE label = "total" -> <<"8", "7", "0">>
      [] label = "fridge" -> <<"5", "0", "3">>
      [] label = "freezer" -> <<"3", "6", "7">>

ThousandsDigit(label) ==
    CASE label = "total" -> "3"
      [] label = "fridge" -> "2"
      [] label = "freezer" -> "1"

\* A fragment is a labelled field in one of three forms, or a note that
\* names the freezer compartment without a capacity.
\*   form 1   label: 870L
\*   form 2   label 3,870 L      (no colon, thousands separator)
\*   form 3   label: ,L          (separator without any digit)
Fragments ==
    [label : Labels, form : 1..3] \cup {[label |-> "note", form |-> 1]}

FragmentText(f) ==
    CASE f.label = "note" -> <<"naeng", "dong", "sil">>
      [] f.label # "note" /\ f.form = 1 ->
            LabelText(f.label) \o <<":", " ">> \o PlainDigits(f.label) \o <<"L">>
      [] f.label # "note" /\ f.form = 2 ->
            LabelText(f.label) \o <<" ", ThousandsDigit(f.label), ",">>
                \o PlainDigits(f.label) \o <<" ", "L">>
      [] f.label # "note" /\ f.form = 3 ->
            LabelText(f.label) \o <<":", " ", ",", "L">>

\* the number a labelled field states, None when it states none
Stated(f) ==
    CASE f.form = 1 /\ f.label = "total" -> IntVal(870)
      [] f.form = 1 /\ f.label = "fridge" -> IntVal(503)
      [] f.form = 1 /\ f.label = "freezer" -> IntVal(367)
      [] f.form = 2 /\ f.label = "total" -> IntVal(3870)
      [] f.form = 2 /\ f.label = "fridge" -> IntVal(2503)
      [] f.form = 2 /\ f.label = "freezer" -> IntVal(1367)
      [] OTHER -> None

RECURSIVE Render(_)
\* the fragments joined with "/"
Render(fs) ==
    IF fs = <<>> THEN <<>>
    ELSE IF Len(fs) = 1 THEN FragmentText(fs[1])
    ELSE FragmentText(fs[1]) \o <<"/">> \o Render(Tail(fs))

\* every label at most once, in any order
FieldLists ==
    {fs \in SeqsUpTo(Fragments, MaxFields) :
        \A i, j \in 1..Len(fs) : fs[i].label = fs[j].label => i = j}

InitParser ==
    /\ pc = "extract"
    /\ fields \in FieldLists
    /\ spec_text = Render(fields)
    /\ caps = Pending
    /\ error = "none"
    /\ driver = "none"
    /\ displayed = 0
    /\ shown = 0
    /\ current_page = 1
    /\ all_rows = <<>>
    /\ items = <<>>
    /\ idx = 1
    /\ results = <<>>
    /\ tier1 = "none"
    /\ tier2 = "none"
    /\ next_btn = <<>>
    /\ class_attr = <<>>
    /\ clicks = <<>>
    /\ ret = "none"
    /\ file = NotWritten
    /\ writes = 0
    /\ extractions = 0
    /\ advances = 0
    /\ failedAt = 0
    /\ emitted = <<>>
    /\ src_idx = <<>>

\* total_l, fridge_l, freezer_l = extract_capacities(spec_text)
ApplyExtract ==
    /\ pc = "extract"
    /\ caps' = extract_capacities(spec_text)
    /\ pc' = IF caps'.raised THEN "crashed" ELSE "extracted"
    /\ error' = IF caps'.raised THEN "ValueError" ELSE "none"
    /\ UNCHANGED shown
    /\ UNCHANGED <<mainVars, parseVars, navVars, histVars, spec_text, fields>>

SpecParser == InitParser /\ [][ApplyExtract]_vars

\* ------------------------------------------------------------------------
\* Properties
\* ------------------------------------------------------------------------
LoopBody ==
    {"page_source", "for_item", "tier1", "t1_click", "tier2", "t2_inspect",
     "t2_click", "returned"}

AfterLoop == {"quit", "write", "done"}

IsPrefix(s, t) == Len(s) <= Len(t) /\ SubSeq(t, 1, Len(s)) = s

\* the site marks the control inactive: one of its class tokens is the marker
Marked(control) == \E i \in 1..Len(control) : control[i] \in {disabled, off}

RowABC == <<"ABC Fridge", IntVal(870), IntVal(367), IntVal(503)>>
RowB == <<"B", IntVal(3870), IntVal(1367), IntVal(2503)>>

\* C1: the body of the crawl loop runs only while current_page <= MAX_PAGES:
\* at most MAX_PAGES pages are extracted, even when every advancement
\* succeeds, and with current_page past the cap the run is at the loop test
\* or behind the loop.
C1_SafetyCap ==
    /\ extractions <= MAX_PAGES
    /\ current_page <= MAX_PAGES + 1
    /\ pc \in LoopBody => current_page <= MAX_PAGES
    /\ current_page = MAX_PAGES + 1 => pc \in {"while"} \cup AfterLoop

C1_Witness ==
    /\ pc = "done"
    /\ extractions = MAX_PAGES
    /\ current_page = MAX_PAGES + 1
    /\ failedAt = 0

\* C2: once go_to_next_page has returned False on page K, K pages have been
\* extracted and K advancements attempted and no more follow; the file is
\* written at most once, only after driver.quit(), and holds the header and
\* exactly the rows the K extractions returned, in order.
C2_FailureThenSingleWrite ==
    /\ writes <= 1
    /\ writes = 0 => file = NotWritten
    /\ writes = 1 => /\ driver = "quit"
                     /\ file = [header |-> Header, rows |-> emitted]
    /\ failedAt # 0 => /\ extractions = failedAt
                       /\ advances = failedAt
                       /\ current_page = failedAt
                       /\ ret = "False"
                       /\ pc \in AfterLoop
    /\ pc = "done" => writes = 1

C2_Witness ==
    /\ pc = "done"
    /\ failedAt = 2
    /\ file = [header |-> Header, rows |-> <<RowB, RowABC, RowB>>]

\* C3: a run that has acquired the browser session and has ended, normally or
\* with an exception, has called driver.quit().
C3_ReleasedAtEnd ==
    (pc \in {"done", "crashed"} /\ driver # "none") => driver = "quit"

\* C4: the next-page control is searched for only after the numeric-link wait
\* has timed out; when the numeric link is found, the call issues exactly one
\* click, on that link, never locates or clicks the next-page control, and
\* returns True.
C4_Tier2OnlyAfterTier1Timeout ==
    /\ tier2 # "none" => tier1 = "timeout"
    /\ pc \in {"tier2", "t2_inspect", "t2_click"} => tier1 = "timeout"
    /\ tier1 = "found" =>
          /\ tier2 = "none"
          /\ next_btn = <<>>
          /\ IF pc = "t1_click"
             THEN clicks = <<>> /\ ret = "none"
             ELSE clicks = <<"num_link">> /\ ret = "True"

C4_Witness ==
    /\ pc = "returned"
    /\ tier1 = "found"
    /\ clicks = <<"num_link">>
    /\ ret = "True"
    /\ current_page = 2

\* C5: when the next-page control is found and the site marks it inactive,
\* the call returns False and has clicked nothing; when it is found and not
\* marked inactive, the call clicks it exactly once and returns True.
C5_InactiveControlNeverClicked ==
    tier2 = "found" =>
        IF pc = "t2_inspect" THEN clicks = <<>> /\ ret = "none"
        ELSE IF Marked(next_btn)
        THEN clicks = <<>> /\ ret = "False" /\ pc # "t2_click"
        ELSE IF pc = "t2_click"
        THEN clicks = <<>> /\ ret = "none"
        ELSE clicks = <<"next_btn">> /\ ret = "True"

C5_Witness ==
    /\ pc = "returned"
    /\ tier2 = "found"
    /\ next_btn = <<edge_nav, nav_next, off>>
    /\ ret = "False"
    /\ clicks = <<>>

\* C6: every call of go_to_next_page whose waits find or time out returns a
\* boolean; it returns False exactly when the numeric-link wait timed out
\* and the next-button wait timed out or found a control marked inactive;
\* after a False the run leaves the loop and ends without an exception.
C6_TimeoutsBecomeBooleans ==
    /\ pc = "returned" => ret \in {"True", "False"}
    /\ ret # "none" =>
          (ret = "False" <=>
              /\ tier1 = "timeout"
              /\ \/ tier2 = "timeout"
                 \/ tier2 = "found" /\ Marked(next_btn))
    /\ (ret = "False" /\ pc # "returned") =>
          pc \in AfterLoop /\ error = "none"
    /\ error # "TimeoutException"

C6_Witness ==
    /\ pc = "done"
    /\ ret = "False"
    /\ tier1 = "timeout"
    /\ tier2 = "timeout"
    /\ error = "none"

\* C7: parse_current_page emits a row only for a candidate that has a name
\* element, a spec block (div.spec_list or else div.prod_spec_set) and all
\* three capacities; so there are never more rows than candidates seen, every
\* row carries the name and three integers, and a candidate lacking a field
\* contributes no row.
C7_AllOrNothingGate ==
    /\ Len(results) <= Len(items)
    /\ Len(results) = Len(src_idx)
    /\ \A k \in 1..Len(results) :
          LET item == items[src_idx[k]]
              c == extract_capacities(SelectSpec(item).text)
          IN  /\ src_idx[k] < idx
              /\ item.name_el.present
              /\ SelectSpec(item).present
              /\ ~c.raised
              /\ \A v \in {c.total_l, c.fridge_l, c.freezer_l} : v.tag = "int"
              /\ results[k] =
                    <<item.name_el.text, c.total_l, c.freezer_l, c.fridge_l>>
    /\ \A k \in 1..Len(all_rows) :
          \A j \in 2..4 : all_rows[k][j].tag = "int"

C7_Witness ==
    /\ pc = "for_item"
    /\ idx = 3
    /\ items[1] = Card(Name("D"), Element(TextNoFreezer), NoElement)
    /\ results = <<RowABC>>
    /\ src_idx = <<2>>

C9_State ==
    /\ current_page >= 1
    /\ pc = "start" => current_page = 1
    /\ \A k \in 1..Len(src_idx) :
          /\ results[k][1] = items[src_idx[k]].name_el.text
          /\ k > 1 => src_idx[k - 1] < src_idx[k]

C9_Step ==
    /\ current_page' >= current_page
    /\ current_page' # current_page =>
          /\ current_page' = current_page + 1
          /\ pc = "returned"
          /\ ret = "True"
    /\ (pc = "returned" /\ ret = "False") => current_page' = current_page
    /\ IsPrefix(all_rows, all_rows')
    /\ all_rows' # all_rows => all_rows' = all_rows \o results
    /\ (pc = "for_item" /\ pc' = "tier1") => all_rows' = all_rows \o results

\* C9: current_page starts at 1, never decreases, grows by exactly 1 and only
\* after go_to_next_page returned True; all_rows only grows at its end, by
\* the rows of the page just extracted, which are in the order of the
\* candidates in the page.
C9_MonotoneAppendOnly == []C9_State /\ [][C9_Step]_vars

C9_Witness ==
    /\ pc = "tier1"
    /\ current_page = 2
    /\ all_rows = <<RowABC, RowB, RowABC>>
    /\ results = <<RowABC>>
    /\ src_idx = <<1>>

\* the value extract_capacities returned for a label
Returned(label) ==
    CASE label = "total" -> caps.total_l
      [] label = "fridge" -> caps.fridge_l
      [] label = "freezer" -> caps.freezer_l

\* C10: extract_capacities never fails, and for each of the three labels it
\* returns None when the text has no field with that label and the number
\* the field states, separators removed, when it has one.
C10_IndependentFields ==
    pc # "extract" =>
        /\ ~caps.raised
        /\ \A label \in Labels :
              IF \E i \in 1..Len(fields) : fields[i].label = label
              THEN \A i \in 1..Len(fields) :
                      fields[i].label = label =>
                          Returned(label) = Stated(fields[i])
              ELSE Returned(label) = None

====
